---------------------------- MODULE Spec2Model ----------------------------
(***************************************************************************)
(* go-get-imgs: a CSV-driven image downloader.                             *)
(*                                                                         *)
(* The module models one run of the command (cmd/go-get-imgs/main.go),     *)
(* the row loop of Processor.ProcessCSV (internal/csv/processor.go), the   *)
(* callback the command passes to it, Downloader.DownloadImage and the     *)
(* extension functions (internal/downloader), and utils.IsValidURL         *)
(* (internal/utils/url.go).                                                *)
(*                                                                         *)
(* A Go string is a sequence of one-character strings, so that trimming,   *)
(* prefix tests, substring tests and suffix extraction are computed the    *)
(* way the code computes them.                                             *)
(***************************************************************************)
EXTENDS Integers, Sequences, FiniteSets, TLC

VARIABLES
    pc,               \* position of the run
    argc,             \* len(os.Args)
    colArg,           \* os.Args[2], the column index as typed
    csvState,         \* the input file: "missing", "unreadable" or "ok"
    dirState,         \* whether os.MkdirAll("downloads") can succeed
    urlColumnIndex,   \* ProcessCSV's parameter
    fieldsPerRecord,  \* csv.Reader.FieldsPerRecord (0 until the first record)
    recordsRead,      \* data records reader.Read() has returned without error
    result,           \* the ProcessResult under construction
    rowNum,           \* ProcessCSV's local row counter
    ret,              \* what ProcessCSV returned
    cbUrl,            \* the url argument of the running callback
    cbRowNum,         \* the rowNum argument of the running callback
    cbErr,            \* the error the callback returns
    resp,             \* the HTTP response DownloadImage holds
    curFile,          \* the output file DownloadImage has created
    files,            \* the download directory: file name -> content state
    handles,          \* open handles: "csv", "body", "out"
    row,              \* the record the loop holds
    readErr,          \* the error reader.Read() returned with it
    calls,            \* the row numbers of the callback invocations so far
    gets,             \* number of GET requests issued
    exitCode,         \* the process exit status
    arg,              \* argument of a library function applied on its own
    out,              \* its result: <<>> before the call, <<v>> after
    succeeded,        \* the row numbers counted as successes so far
    dir0,             \* the files of the target directory when the run started
    csvFile,          \* the input file, when its content is fixed before the run
    run,              \* 1 in the first run of the command, 2 when it is run again
    test              \* the row loop of TestIntegrationWithErrors, run beside the command

vars == <<pc, argc, colArg, csvState, dirState, urlColumnIndex, fieldsPerRecord,
          recordsRead, result, rowNum, ret, cbUrl, cbRowNum, cbErr, resp,
          curFile, files, handles, row, readErr, calls, gets, succeeded, dir0,
          exitCode, arg, out,
          csvFile, run, test>>

-----------------------------------------------------------------------------
(* Bounds of the model *)

MaxRows == 2     \* data records one input file holds at most
MaxCols == 2     \* fields one record holds at most
MaxTail == 2     \* characters after the scheme in an IsValidURL input

-----------------------------------------------------------------------------
(* strings *)

\* unicode.IsSpace, restricted to the characters the model uses
WhiteSpace == {" ", "\t", "\n", "\r"}

RECURSIVE TrimLeft(_)
TrimLeft(s) ==
    IF s # <<>> /\ Head(s) \in WhiteSpace THEN TrimLeft(Tail(s)) ELSE s

RECURSIVE TrimRight(_)
TrimRight(s) ==
    IF s # <<>> /\ s[Len(s)] \in WhiteSpace
    THEN TrimRight(SubSeq(s, 1, Len(s) - 1))
    ELSE s

\* strings.TrimSpace
TrimSpace(s) == TrimRight(TrimLeft(s))

\* strings.HasPrefix
HasPrefix(s, prefix) ==
    Len(s) >= Len(prefix) /\ SubSeq(s, 1, Len(prefix)) = prefix

\* strings.Contains
Contains(s, substr) ==
    \E i \in 1..(Len(s) - Len(substr) + 1) :
        SubSeq(s, i, i + Len(substr) - 1) = substr

UpperCase == <<"A", "B", "C", "D", "E", "F", "G", "H", "I", "J", "K", "L", "M",
               "N", "O", "P", "Q", "R", "S", "T", "U", "V", "W", "X", "Y", "Z">>
LowerCase == <<"a", "b", "c", "d", "e", "f", "g", "h", "i", "j", "k", "l", "m",
               "n", "o", "p", "q", "r", "s", "t", "u", "v", "w", "x", "y", "z">>

\* strings.ToLower
ToLower(s) ==
    [i \in 1..Len(s) |->
        IF \E k \in 1..26 : UpperCase[k] = s[i]
        THEN LowerCase[CHOOSE k \in 1..26 : UpperCase[k] = s[i]]
        ELSE s[i]]

-----------------------------------------------------------------------------
(* internal/utils/url.go *)

SchemeHTTP == <<"h", "t", "t", "p", ":", "/", "/">>
SchemeHTTPS == <<"h", "t", "t", "p", "s", ":", "/", "/">>
SchemeFTP == <<"f", "t", "p", ":", "/", "/">>
SchemeFILE == <<"f", "i", "l", "e", ":", "/", "/">>

validSchemes == <<SchemeHTTP, SchemeHTTPS, SchemeFTP, SchemeFILE>>

\* url.go:38
AfterSchemeOK(afterScheme) ==
    Len(afterScheme) > 0 /\ ~Contains(afterScheme, <<" ">>)

\* a trim of the leading white space only
TrimmedLeftOnly(url) == TrimLeft(url)

\* url.go:7
Trimmed(url) == TrimSpace(url)

\* a file:// check that lets the bare scheme through
FileURLOKBare(trimmed) == Len(trimmed) >= 7

\* url.go:27-29
FileURLOK(trimmed) == Len(trimmed) > 7

IsValidURL(url) ==
    LET trimmed == Trimmed(url)
        hasValidScheme == \E k \in 1..Len(validSchemes) : HasPrefix(trimmed, validSchemes[k])
    IN  IF trimmed = <<>> THEN FALSE
        ELSE IF ~hasValidScheme THEN FALSE
        ELSE IF HasPrefix(trimmed, SchemeFILE) THEN FileURLOK(trimmed)
        ELSE LET k == CHOOSE j \in 1..Len(validSchemes) :
                          /\ HasPrefix(trimmed, validSchemes[j])
                          /\ \A h \in 1..(j - 1) : ~HasPrefix(trimmed, validSchemes[h])
                 scheme == validSchemes[k]
                 afterScheme == SubSeq(trimmed, Len(scheme) + 1, Len(trimmed))
             IN  AfterSchemeOK(afterScheme)

-----------------------------------------------------------------------------
(* internal/downloader *)

MarkerJPEG == <<"i", "m", "a", "g", "e", "/", "j", "p", "e", "g">>
MarkerJPG == <<"i", "m", "a", "g", "e", "/", "j", "p", "g">>
MarkerPNG == <<"i", "m", "a", "g", "e", "/", "p", "n", "g">>
MarkerGIF == <<"i", "m", "a", "g", "e", "/", "g", "i", "f">>
MarkerWEBP == <<"i", "m", "a", "g", "e", "/", "w", "e", "b", "p">>
MarkerBMP == <<"i", "m", "a", "g", "e", "/", "b", "m", "p">>
MarkerTIFF == <<"i", "m", "a", "g", "e", "/", "t", "i", "f", "f">>

ExtJPG == <<".", "j", "p", "g">>
ExtJPEG == <<".", "j", "p", "e", "g">>
ExtPNG == <<".", "p", "n", "g">>
ExtGIF == <<".", "g", "i", "f">>
ExtWEBP == <<".", "w", "e", "b", "p">>
ExtBMP == <<".", "b", "m", "p">>
ExtTIFF == <<".", "t", "i", "f", "f">>
ExtTIF == <<".", "t", "i", "f">>

\* a mapping without the image/jpg case
getExtensionFromContentTypeNoJPG(contentType) ==
    IF Contains(contentType, MarkerJPEG) THEN ExtJPG
    ELSE IF Contains(contentType, MarkerPNG) THEN ExtPNG
    ELSE IF Contains(contentType, MarkerGIF) THEN ExtGIF
    ELSE IF Contains(contentType, MarkerWEBP) THEN ExtWEBP
    ELSE IF Contains(contentType, MarkerBMP) THEN ExtBMP
    ELSE IF Contains(contentType, MarkerTIFF) THEN ExtTIFF
    ELSE <<>>

\* the unexported function DownloadImage calls
getExtensionFromContentType(contentType) ==
    IF Contains(contentType, MarkerJPEG) THEN ExtJPG
    ELSE IF Contains(contentType, MarkerJPG) THEN ExtJPG
    ELSE IF Contains(contentType, MarkerPNG) THEN ExtPNG
    ELSE IF Contains(contentType, MarkerGIF) THEN ExtGIF
    ELSE IF Contains(contentType, MarkerWEBP) THEN ExtWEBP
    ELSE IF Contains(contentType, MarkerBMP) THEN ExtBMP
    ELSE IF Contains(contentType, MarkerTIFF) THEN ExtTIFF
    ELSE <<>>

\* a mapping that keeps the spelling of the marker: .jpeg for image/jpeg
GetExtensionFromContentTypeSpelled(contentType) ==
    IF Contains(contentType, MarkerJPEG) THEN ExtJPEG
    ELSE IF Contains(contentType, MarkerJPG) THEN ExtJPG
    ELSE IF Contains(contentType, MarkerPNG) THEN ExtPNG
    ELSE IF Contains(contentType, MarkerGIF) THEN ExtGIF
    ELSE IF Contains(contentType, MarkerWEBP) THEN ExtWEBP
    ELSE IF Contains(contentType, MarkerBMP) THEN ExtBMP
    ELSE IF Contains(contentType, MarkerTIFF) THEN ExtTIFF
    ELSE <<>>

\* the exported function the tests call
GetExtensionFromContentType(contentType) ==
    IF Contains(contentType, MarkerJPEG) THEN ExtJPG
    ELSE IF Contains(contentType, MarkerJPG) THEN ExtJPG
    ELSE IF Contains(contentType, MarkerPNG) THEN ExtPNG
    ELSE IF Contains(contentType, MarkerGIF) THEN ExtGIF
    ELSE IF Contains(contentType, MarkerWEBP) THEN ExtWEBP
    ELSE IF Contains(contentType, MarkerBMP) THEN ExtBMP
    ELSE IF Contains(contentType, MarkerTIFF) THEN ExtTIFF
    ELSE <<>>

\* os.IsPathSeparator on a Unix build
PathSeparators == {"/"}

\* filepath.Ext: the suffix from the last dot of the final path element
RECURSIVE ExtFrom(_, _)
ExtFrom(path, i) ==
    IF i < 1 \/ path[i] \in PathSeparators THEN <<>>
    ELSE IF path[i] = "." THEN SubSeq(path, i, Len(path))
    ELSE ExtFrom(path, i - 1)

Ext(path) == ExtFrom(path, Len(path))

validExts == <<ExtJPG, ExtJPEG, ExtPNG, ExtGIF, ExtWEBP, ExtBMP, ExtTIFF, ExtTIF>>

\* a suffix returned as the URL spells it
GetExtensionFromURLAsSpelled(url) ==
    LET ext == Ext(url)
    IN  IF ext # <<>> /\ \E k \in 1..Len(validExts) : ToLower(ext) = validExts[k]
        THEN ext
        ELSE <<>>

GetExtensionFromURL(url) ==
    LET ext == Ext(url)
    IN  IF ext # <<>> /\ \E k \in 1..Len(validExts) : ToLower(ext) = validExts[k]
        THEN ToLower(ext)
        ELSE <<>>

\* the extension with the URL consulted before the content type
ResolveExtensionURLFirst(contentType, url) ==
    IF GetExtensionFromURL(url) # <<>> THEN GetExtensionFromURL(url)
    ELSE IF getExtensionFromContentType(contentType) # <<>>
         THEN getExtensionFromContentType(contentType)
         ELSE ExtJPG

\* DownloadImage, lines 39-46: content type, then URL suffix, then .jpg
ResolveExtension(contentType, url) ==
    LET extension == getExtensionFromContentType(contentType)
    IN  IF extension = <<>>
        THEN IF GetExtensionFromURL(url) = <<>> THEN ExtJPG
             ELSE GetExtensionFromURL(url)
        ELSE extension

\* a file name that carries the number of the first row whatever the row
FileNameFirstRow(n, extension) == [rowNum |-> 1, ext |-> extension]

\* fmt.Sprintf("image_%d%s", rowNum, extension) under downloadDir
FileName(n, extension) == [rowNum |-> n, ext |-> extension]

-----------------------------------------------------------------------------
(* inputs *)

\* the URL cells of the input files
CellEmpty == <<>>
CellBlank == <<" ", "\t">>
CellPaddedGIF == <<" ", "h", "t", "t", "p", ":", "/", "/", "a", "/", "b", ".", "G", "I", "F", " ">>
CellNoExt == <<"h", "t", "t", "p", ":", "/", "/", "a", "/", "c">>
CellFiller == <<"1">>
CellFTP == <<"f", "t", "p", ":", "/", "/", "a", "/", "d", ".", "p", "n", "g">>
CellJPG == <<"h", "t", "t", "p", "s", ":", "/", "/", "a", "/", "e", ".", "j", "p", "g">>

Cells == {CellEmpty, CellBlank, CellPaddedGIF, CellNoExt, CellFTP, CellJPG, CellFiller}

\* the records a CSV file can hold: one to MaxCols fields each, at most one of
\* them other than the filler
Records ==
    UNION {{r \in [1..w -> Cells] :
               Cardinality({i \in 1..w : r[i] # CellFiller}) <= 1} : w \in 1..MaxCols}

\* os.Args[2] as typed on the command line
ColArgs == {<<"0">>, <<"1">>, <<"2">>, <<"3">>, <<"-", "1">>, <<"+", "2">>, <<"x">>, <<>>}

Digits == <<"0", "1", "2", "3", "4", "5", "6", "7", "8", "9">>

DigitValue(c) == (CHOOSE k \in 1..10 : Digits[k] = c) - 1

IsDigit(c) == \E k \in 1..10 : Digits[k] = c

RECURSIVE DecimalValue(_)
DecimalValue(s) ==
    IF s = <<>> THEN 0
    ELSE 10 * DecimalValue(SubSeq(s, 1, Len(s) - 1)) + DigitValue(s[Len(s)])

\* strconv.Atoi: an optional sign, then one or more decimal digits
AtoiDigits(s) == IF s # <<>> /\ Head(s) \in {"+", "-"} THEN Tail(s) ELSE s

AtoiOK(s) ==
    /\ AtoiDigits(s) # <<>>
    /\ \A i \in 1..Len(AtoiDigits(s)) : IsDigit(AtoiDigits(s)[i])

Atoi(s) ==
    IF s # <<>> /\ Head(s) = "-" THEN 0 - DecimalValue(AtoiDigits(s))
    ELSE DecimalValue(AtoiDigits(s))

\* Content-Type values a server answers with
TypePNG == <<"i", "m", "a", "g", "e", "/", "p", "n", "g">>
TypeHTML == <<"t", "e", "x", "t", "/", "h", "t", "m", "l">>

ContentTypes == {TypePNG, TypeHTML}

\* http.StatusOK
StatusOK == 200

\* status codes a server answers with
StatusCodes == {200, 201, 404}

\* what client.Get(url) can return: a transport error (always so for a scheme
\* the HTTP client does not support) or a response
GetOutcomes(url) ==
    {[err |-> TRUE, status |-> 0, contentType |-> <<>>]}
    \cup IF HasPrefix(url, SchemeHTTP) \/ HasPrefix(url, SchemeHTTPS)
         THEN {[err |-> FALSE, status |-> s, contentType |-> c] :
                   s \in StatusCodes, c \in ContentTypes}
         ELSE {}

NoResponse == [err |-> TRUE, status |-> 0, contentType |-> <<>>]

\* what reader.Read() can return with FieldsPerRecord left at its default 0:
\* io.EOF, a parse error, or a record, which comes with ErrFieldCount when its
\* field count differs from the first record's
ReadOutcomes(fpr) ==
    {[record |-> <<>>, err |-> "EOF"], [record |-> <<>>, err |-> "parse"]}
    \cup {[record |-> r,
           err |-> IF fpr > 0 /\ Len(r) # fpr THEN "fieldcount" ELSE "nil"] :
              r \in Records}

\* an input file whose content is left to each reader.Read()
AnyFile == [fixed |-> FALSE, records |-> <<>>]

\* what the pos-th reader.Read() of a run returns: any outcome when the content
\* of the file is left open, else the pos-th record of the file, or io.EOF
\* after its last record
ReadAt(file, pos, fpr) ==
    IF ~file.fixed THEN ReadOutcomes(fpr)
    ELSE IF pos > Len(file.records) THEN {[record |-> <<>>, err |-> "EOF"]}
    ELSE {[record |-> file.records[pos],
           err |-> IF fpr > 0 /\ Len(file.records[pos]) # fpr THEN "fieldcount" ELSE "nil"]}

\* the test loop when no test runs beside the command
NoTest == [pc |-> "off", fieldsPerRecord |-> 0, rowNum |-> 0, successCount |-> 0,
           errorCount |-> 0, calls |-> <<>>, files |-> <<>>]

\* ProcessResult{}
ZeroResult == [SuccessCount |-> 0, ErrorCount |-> 0, TotalRows |-> 0]

NotReturned == [state |-> "none", result |-> ZeroResult, err |-> "nil"]

\* a directory left by an earlier run
StaleFile == FileName(1, ExtPNG)

InitialDirs == {<<>>, StaleFile :> "complete"}

NoFile == FileName(0, <<>>)

-----------------------------------------------------------------------------
(* the run of the command *)

Init ==
    /\ pc = "main"
    /\ argc \in {2, 3, 4}
    /\ colArg \in ColArgs
    /\ csvState \in {"missing", "unreadable", "ok"}
    /\ dirState \in {"ok", "blocked"}
    /\ files \in InitialDirs
    /\ urlColumnIndex = 0
    /\ fieldsPerRecord = 0
    /\ recordsRead = 0
    /\ result = ZeroResult
    /\ rowNum = 0
    /\ ret = NotReturned
    /\ cbUrl = <<>>
    /\ cbRowNum = 0
    /\ cbErr = "nil"
    /\ resp = NoResponse
    /\ curFile = NoFile
    /\ handles = {}
    /\ row = <<>>
    /\ readErr = "nil"
    /\ calls = <<>>
    /\ gets = 0
    /\ exitCode = -1
    /\ arg = <<>>
    /\ out = <<>>
    /\ succeeded = {}
    /\ dir0 = files
    /\ csvFile = AnyFile
    /\ run = 1
    /\ test = NoTest

\* main, up to the call of ProcessCSV: argument count, strconv.Atoi, os.Stat,
\* os.MkdirAll
MainStart ==
    /\ pc = "main"
    /\ IF argc # 3 \/ ~AtoiOK(colArg) \/ csvState = "missing" \/ dirState = "blocked"
       THEN /\ pc' = "exit"
            /\ exitCode' = 1
            /\ UNCHANGED urlColumnIndex
       ELSE /\ pc' = "open"
            /\ urlColumnIndex' = Atoi(colArg)
            /\ UNCHANGED exitCode
    /\ UNCHANGED <<row, readErr, argc, colArg, csvState, dirState, fieldsPerRecord, recordsRead,
                   result, rowNum, ret, cbUrl, cbRowNum, cbErr, resp, curFile,
                   files, handles, calls, gets, arg, out,
                   succeeded, dir0,
                   csvFile, run, test>>

\* a return that leaves the handles open
CloseDeferredForgotten(open, closed) == open

\* the deferred Close calls that run when a function returns: file.Close() in
\* ProcessCSV, resp.Body.Close() and file.Close() in DownloadImage
CloseDeferred(open, closed) == open \ closed

\* ProcessCSV: os.Open and the deferred Close
OpenCSV ==
    /\ pc = "open"
    /\ IF csvState # "ok"
       THEN /\ ret' = [state |-> "error", result |-> ZeroResult, err |-> "open"]
            /\ pc' = "returned"
            /\ UNCHANGED handles
       ELSE /\ handles' = handles \cup {"csv"}
            /\ pc' = "header"
            /\ UNCHANGED ret
    /\ UNCHANGED <<row, readErr, argc, colArg, csvState, dirState, urlColumnIndex, fieldsPerRecord,
                   recordsRead, result, rowNum, cbUrl, cbRowNum, cbErr, resp,
                   curFile, files, calls, gets, exitCode, arg, out,
                   succeeded, dir0,
                   csvFile, run, test>>

\* the header check with the bound off by one
HeaderTooShortOffByOne(header, index) == Len(header) < index - 1

\* processor.go:41
HeaderTooShort(header, index) == Len(header) < index

\* ProcessCSV: the header record and its column check
ReadHeader ==
    /\ pc = "header"
    /\ \E o \in ReadAt(csvFile, 1, fieldsPerRecord) :
          IF o.err # "nil"
          THEN /\ ret' = [state |-> "error", result |-> ZeroResult, err |-> "header"]
               /\ handles' = CloseDeferred(handles, {"csv"})
               /\ pc' = "returned"
               /\ UNCHANGED <<fieldsPerRecord, result, rowNum>>
          ELSE IF HeaderTooShort(o.record, urlColumnIndex)
          THEN /\ ret' = [state |-> "error", result |-> ZeroResult, err |-> "columns"]
               /\ handles' = CloseDeferred(handles, {"csv"})
               /\ pc' = "returned"
               /\ fieldsPerRecord' = Len(o.record)
               /\ UNCHANGED <<result, rowNum>>
          ELSE /\ fieldsPerRecord' = Len(o.record)
               /\ result' = ZeroResult
               /\ rowNum' = 1
               /\ pc' = "loop"
               /\ UNCHANGED <<ret, handles>>
    /\ UNCHANGED <<row, readErr, argc, colArg, csvState, dirState, urlColumnIndex, recordsRead,
                   cbUrl, cbRowNum, cbErr, resp, curFile, files, calls, gets,
                   exitCode, arg, out,
                   succeeded, dir0,
                   csvFile, run, test>>

\* ProcessCSV: reader.Read() at the top of the loop
ReadRecord ==
    /\ pc = "loop"
    /\ \E o \in ReadAt(csvFile, recordsRead + 2, fieldsPerRecord) :
          /\ recordsRead < MaxRows \/ o.err # "nil"
          /\ row' = o.record
          /\ readErr' = o.err
          /\ recordsRead' = IF o.err = "nil" THEN recordsRead + 1 ELSE recordsRead
    /\ pc' = "row"
    /\ UNCHANGED <<argc, colArg, csvState, dirState, urlColumnIndex, fieldsPerRecord,
                   result, rowNum, ret, cbUrl, cbRowNum, cbErr, resp, curFile, files,
                   handles, calls, gets, exitCode, arg, out,
                   succeeded, dir0,
                   csvFile, run, test>>

\* a loop that forgets to count the record
CountRecordForgotten(res) == res

\* processor.go:54
CountRecord(res) == [res EXCEPT !.TotalRows = @ + 1]

\* processor.go:56
ShortRow(r, index) == Len(r) < index

\* processor.go:62-63
EmptyURL(r, index) == TrimSpace(r[index]) = <<>>

\* the cell handed to downloadFunc as it stands in the record
CallbackURLUntrimmed(r, index) == r[index]

\* processor.go:69, the arguments of downloadFunc
CallbackURL(r, index) == TrimSpace(r[index])

\* a callback that is always told it works on the first row
CallbackRowNumFirst(n) == 1

\* processor.go:69, the rowNum argument of downloadFunc
CallbackRowNum(n) == n

\* a skipped row that is not counted as an error
SkipRowUncounted(res) == res

\* processor.go:57 and 64
SkipRow(res) == [res EXCEPT !.ErrorCount = @ + 1]

\* a skipped row that does not consume a row number
RowNumAfterSkipStays(n) == n

\* processor.go:58 and 65
RowNumAfterSkip(n) == n + 1

\* a loop that counts every callback as a success
CountCallbackAllSuccess(res, err) == [res EXCEPT !.SuccessCount = @ + 1]

\* processor.go:69-73
CountCallback(res, err) ==
    IF err # "nil" THEN [res EXCEPT !.ErrorCount = @ + 1]
    ELSE [res EXCEPT !.SuccessCount = @ + 1]

\* a loop that stops at the end of the input only
ReadFailedAtEOF(err) == err = "EOF"

\* processor.go:50
ReadFailed(err) == err # "nil"

\* the exit status of a process ended by an unrecovered panic
PanicExitCode == 2

\* ProcessCSV: the rest of one turn of the loop, up to the call of downloadFunc
CheckRow ==
    /\ pc = "row"
    /\ IF ReadFailed(readErr)
       THEN \* break; return result, nil
            /\ ret' = [state |-> "result", result |-> result, err |-> "nil"]
            /\ handles' = CloseDeferred(handles, {"csv"})
            /\ pc' = "returned"
            /\ UNCHANGED <<result, rowNum, cbUrl, cbRowNum, calls>>
       ELSE IF ShortRow(row, urlColumnIndex)
       THEN /\ result' = SkipRow(CountRecord(result))
            /\ rowNum' = RowNumAfterSkip(rowNum)
            /\ pc' = "loop"
            /\ UNCHANGED <<ret, handles, cbUrl, cbRowNum, calls>>
       ELSE IF urlColumnIndex < 1
       THEN \* row[urlColumnIndex-1] is out of range: the run panics, and the
            \* deferred file.Close() runs
            /\ result' = CountRecord(result)
            /\ handles' = CloseDeferred(handles, {"csv"})
            \* and the process ends with the exit status of a Go panic
            /\ pc' = "panic"
            /\ exitCode' = PanicExitCode
            /\ UNCHANGED <<ret, rowNum, cbUrl, cbRowNum, calls>>
       ELSE IF EmptyURL(row, urlColumnIndex)
       THEN /\ result' = SkipRow(CountRecord(result))
            /\ rowNum' = RowNumAfterSkip(rowNum)
            /\ pc' = "loop"
            /\ UNCHANGED <<ret, handles, cbUrl, cbRowNum, calls>>
       ELSE /\ result' = CountRecord(result)
            /\ cbUrl' = CallbackURL(row, urlColumnIndex)
            /\ cbRowNum' = CallbackRowNum(rowNum)
            /\ calls' = Append(calls, cbRowNum')
            /\ pc' = "callback"
            /\ UNCHANGED <<ret, handles, rowNum>>
    /\ pc' # "panic" => exitCode' = exitCode
    /\ row' = <<>>
    /\ readErr' = "nil"
    /\ UNCHANGED <<argc, colArg, csvState, dirState, urlColumnIndex, fieldsPerRecord,
                   recordsRead, cbErr, resp, curFile, files, gets, arg, out,
                   succeeded, dir0,
                   csvFile, run, test>>

\* a callback that validates nothing, as the bare row processor leaves it
URLRejectedNever(url) == FALSE

\* main.go:54
URLRejected(url) == ~IsValidURL(url)

\* the callback of main: validate the URL, then DownloadImage
Callback ==
    /\ pc = "callback"
    /\ IF URLRejected(cbUrl)
       THEN /\ cbErr' = "invalid"
            /\ pc' = "cbreturn"
       ELSE /\ pc' = "get"
            /\ UNCHANGED cbErr
    /\ UNCHANGED <<row, readErr, argc, colArg, csvState, dirState, urlColumnIndex, fieldsPerRecord,
                   recordsRead, result, rowNum, ret, cbUrl, cbRowNum, resp, curFile,
                   files, handles, calls, gets, exitCode, arg, out,
                   succeeded, dir0,
                   csvFile, run, test>>

\* a status check that lets every 2xx code through
StatusAccepted2xx(status) == status \in 200..299

\* DownloadImage, line 35
StatusAccepted(status) == status = StatusOK

\* a client that repeats the request once
GetsAfterRetry(n) == n + 2

\* DownloadImage, line 29: one client.Get per call
GetsAfterRequest(n) == n + 1

\* DownloadImage: client.Get and the status check
DownloadGet ==
    /\ pc = "get"
    /\ gets' = GetsAfterRequest(gets)
    /\ \E o \in GetOutcomes(cbUrl) :
          /\ resp' = o
          /\ IF o.err
             THEN /\ cbErr' = "request"
                  /\ pc' = "cbreturn"
                  /\ UNCHANGED handles
             ELSE IF ~StatusAccepted(o.status)
             THEN \* the deferred resp.Body.Close() runs on return
                  /\ cbErr' = "status"
                  /\ pc' = "cbreturn"
                  /\ UNCHANGED handles
             ELSE /\ handles' = handles \cup {"body"}
                  /\ pc' = "create"
                  /\ UNCHANGED cbErr
    /\ UNCHANGED <<row, readErr, argc, colArg, csvState, dirState, urlColumnIndex, fieldsPerRecord,
                   recordsRead, result, rowNum, ret, cbUrl, cbRowNum, curFile, files,
                   calls, exitCode, arg, out,
                   succeeded, dir0,
                   csvFile, run, test>>

\* a create that clears the directory of the files of other rows
AfterCreateAlone(dir, f) == f :> "empty"

\* os.Create, line 51: the file is created, or truncated when it exists
AfterCreate(dir, f) ==
    [n \in DOMAIN dir \cup {f} |-> IF n = f THEN "empty" ELSE dir[n]]

\* DownloadImage: the extension, the file name and os.Create
DownloadCreate ==
    /\ pc = "create"
    /\ LET extension == ResolveExtension(resp.contentType, cbUrl)
           filename == FileName(cbRowNum, extension)
       IN  \E created \in BOOLEAN :
              IF ~created
              THEN /\ cbErr' = "create"
                   /\ handles' = CloseDeferred(handles, {"body"})
                   /\ pc' = "cbreturn"
                   /\ UNCHANGED <<curFile, files>>
              ELSE \* the file is created, or truncated when it exists
                   /\ files' = AfterCreate(files, filename)
                   /\ curFile' = filename
                   /\ handles' = handles \cup {"out"}
                   /\ pc' = "copy"
                   /\ UNCHANGED cbErr
    /\ UNCHANGED <<row, readErr, argc, colArg, csvState, dirState, urlColumnIndex, fieldsPerRecord,
                   recordsRead, result, rowNum, ret, cbUrl, cbRowNum, resp, calls,
                   gets, exitCode, arg, out,
                   succeeded, dir0,
                   csvFile, run, test>>

\* a failed copy that removes the file it was writing
AfterFailedCopyRemoved(dir, f) == [n \in DOMAIN dir \ {f} |-> dir[n]]

\* DownloadImage, lines 57-60: the error is returned, the file stays as far as
\* it was written
AfterFailedCopy(dir, f) == [dir EXCEPT ![f] = "partial"]

\* DownloadImage: io.Copy and the deferred Close calls
DownloadCopy ==
    /\ pc = "copy"
    /\ \E copied \in BOOLEAN :
          IF copied
          THEN /\ files' = [files EXCEPT ![curFile] = "complete"]
               /\ cbErr' = "nil"
          ELSE /\ files' = AfterFailedCopy(files, curFile)
               /\ cbErr' = "write"
    /\ handles' = CloseDeferred(handles, {"body", "out"})
    /\ pc' = "cbreturn"
    /\ UNCHANGED <<row, readErr, argc, colArg, csvState, dirState, urlColumnIndex, fieldsPerRecord,
                   recordsRead, result, rowNum, ret, cbUrl, cbRowNum, resp, curFile,
                   calls, gets, exitCode, arg, out,
                   succeeded, dir0,
                   csvFile, run, test>>

\* a loop that hands the same row number to the next row
RowNumAfterCallbackStays(n) == n

\* processor.go:75
RowNumAfterCallback(n) == n + 1

\* ProcessCSV: the callback has returned; count it and advance the row number
CallbackReturn ==
    /\ pc = "cbreturn"
    /\ result' = CountCallback(result, cbErr)
    /\ succeeded' = IF cbErr = "nil" THEN succeeded \cup {cbRowNum} ELSE succeeded
    /\ rowNum' = RowNumAfterCallback(rowNum)
    /\ pc' = "loop"
    \* the arguments and locals of the callback go out of scope
    /\ cbUrl' = <<>>
    /\ cbRowNum' = 0
    /\ cbErr' = "nil"
    /\ resp' = NoResponse
    /\ curFile' = NoFile
    /\ UNCHANGED <<row, readErr, argc, colArg, csvState, dirState, urlColumnIndex, fieldsPerRecord,
                   recordsRead, ret, files, handles, calls, gets, exitCode, arg, out,
                   dir0,
                   csvFile, run, test>>

\* main, after ProcessCSV: report the error and exit 1, or print the summary
MainFinish ==
    /\ pc = "returned"
    /\ exitCode' = IF ret.err # "nil" THEN 1 ELSE 0
    /\ pc' = "exit"
    /\ UNCHANGED <<row, readErr, argc, colArg, csvState, dirState, urlColumnIndex, fieldsPerRecord,
                   recordsRead, result, rowNum, ret, cbUrl, cbRowNum, cbErr, resp,
                   curFile, files, handles, calls, gets, arg, out,
                   succeeded, dir0,
                   csvFile, run, test>>

Next ==
    \/ MainStart
    \/ OpenCSV
    \/ ReadHeader
    \/ ReadRecord
    \/ CheckRow
    \/ Callback
    \/ DownloadGet
    \/ DownloadCreate
    \/ DownloadCopy
    \/ CallbackReturn
    \/ MainFinish

Spec == Init /\ [][Next]_vars

-----------------------------------------------------------------------------
(* the command run twice on the same input file and target directory *)

\* the URL cells of the files that are read twice
RerunCells == {CellNoExt, CellFiller, CellEmpty}

\* a one-column file: a header and up to MaxRows data records
RerunFiles ==
    {[fixed |-> TRUE, records |-> <<<<CellFiller>>>> \o rows] :
        rows \in UNION {[1..n -> {<<c>> : c \in RerunCells}] : n \in 0..MaxRows}}

InitRerun ==
    /\ pc = "main"
    /\ argc = 3
    /\ colArg = <<"1">>
    /\ csvState = "ok"
    /\ dirState = "ok"
    /\ files = <<>>
    /\ dir0 = <<>>
    /\ csvFile \in RerunFiles
    /\ run = 1
    /\ urlColumnIndex = 0
    /\ fieldsPerRecord = 0
    /\ recordsRead = 0
    /\ result = ZeroResult
    /\ rowNum = 0
    /\ ret = NotReturned
    /\ cbUrl = <<>>
    /\ cbRowNum = 0
    /\ cbErr = "nil"
    /\ resp = NoResponse
    /\ curFile = NoFile
    /\ handles = {}
    /\ row = <<>>
    /\ readErr = "nil"
    /\ calls = <<>>
    /\ gets = 0
    /\ exitCode = -1
    /\ succeeded = {}
    /\ arg = <<>>
    /\ out = <<>>
    /\ test = NoTest

\* the command is started again with the same arguments: a new process, the
\* same input file, the target directory as the first run left it
Rerun ==
    /\ pc = "exit"
    /\ run = 1
    /\ run' = 2
    /\ dir0' = files
    /\ pc' = "main"
    /\ urlColumnIndex' = 0
    /\ fieldsPerRecord' = 0
    /\ recordsRead' = 0
    /\ result' = ZeroResult
    /\ rowNum' = 0
    /\ ret' = NotReturned
    /\ calls' = <<>>
    /\ gets' = 0
    /\ exitCode' = -1
    /\ succeeded' = {}
    /\ UNCHANGED <<argc, colArg, csvState, dirState, csvFile, files, cbUrl, cbRowNum,
                   cbErr, resp, curFile, handles, row, readErr, arg, out, test>>

NextRerun ==
    \/ Next
    \/ Rerun

SpecRerun == InitRerun /\ [][NextRerun]_vars

-----------------------------------------------------------------------------
(* the row loop of TestIntegrationWithErrors, run beside the command on the
   same input file, against the same server and the same disk *)

\* main_test.go:564-570: the loop reads the third column
TestURLColumn == 3

\* the URL cells of the files both loops read
LoopCells == {CellNoExt, CellFiller, CellEmpty}

\* records of TestURLColumn - 1 fields, and of TestURLColumn fields with the
\* URL in the last
LoopRecords ==
    {[i \in 1..(TestURLColumn - 1) |-> CellFiller]}
    \cup {[i \in 1..TestURLColumn |-> IF i = TestURLColumn THEN c ELSE CellFiller] :
              c \in LoopCells}

\* a header and up to MaxRows data records
LoopFiles ==
    {[fixed |-> TRUE, records |-> <<h>> \o rows] :
        h \in {r \in LoopRecords : r[Len(r)] = CellFiller},
        rows \in UNION {[1..n -> LoopRecords] : n \in 0..MaxRows}}

InitLoop ==
    /\ pc = "main"
    /\ argc = 3
    /\ colArg = <<"3">>
    /\ csvState = "ok"
    /\ dirState = "ok"
    /\ files = <<>>
    /\ dir0 = <<>>
    /\ csvFile \in LoopFiles
    /\ run = 1
    /\ test = [NoTest EXCEPT !.pc = "header"]
    /\ urlColumnIndex = 0
    /\ fieldsPerRecord = 0
    /\ recordsRead = 0
    /\ result = ZeroResult
    /\ rowNum = 0
    /\ ret = NotReturned
    /\ cbUrl = <<>>
    /\ cbRowNum = 0
    /\ cbErr = "nil"
    /\ resp = NoResponse
    /\ curFile = NoFile
    /\ handles = {}
    /\ row = <<>>
    /\ readErr = "nil"
    /\ calls = <<>>
    /\ gets = 0
    /\ exitCode = -1
    /\ succeeded = {}
    /\ arg = <<>>
    /\ out = <<>>

\* main_test.go:545-552: the test opens the file and skips the header; a header
\* that cannot be read ends the test, and rowNum starts at 1
TestHeader ==
    /\ test.pc = "header"
    /\ \E o \in ReadAt(csvFile, 1, test.fieldsPerRecord) :
          test' = IF o.err # "nil" THEN [test EXCEPT !.pc = "fatal"]
                  ELSE [test EXCEPT !.pc = "loop",
                                    !.fieldsPerRecord = Len(o.record),
                                    !.rowNum = 1]
    /\ UNCHANGED <<pc, argc, colArg, csvState, dirState, urlColumnIndex, fieldsPerRecord,
                   recordsRead, result, rowNum, ret, cbUrl, cbRowNum, cbErr, resp,
                   curFile, files, handles, row, readErr, calls, gets, succeeded,
                   dir0, exitCode, arg, out, csvFile, run>>

\* the error DownloadImage returns to the test loop and the content type it
\* saw: those of the command's download of the same URL for the same row when
\* there is one, any otherwise
TestDownloads(url, n) ==
    IF pc = "cbreturn" /\ cbRowNum = n /\ cbUrl = url /\ cbErr # "invalid"
    THEN {[err |-> cbErr, contentType |-> resp.contentType]}
    ELSE {[err |-> e, contentType |-> c] :
             e \in {"nil", "request", "status", "create", "write"}, c \in ContentTypes}

\* the directory after a DownloadImage(url, dir, n) call with that outcome
TestFilesAfter(dir, url, n, d) ==
    LET filename == FileName(n, ResolveExtension(d.contentType, url))
    IN  IF d.err = "nil"
        THEN [AfterCreate(dir, filename) EXCEPT ![filename] = "complete"]
        ELSE IF d.err = "write"
        THEN AfterFailedCopy(AfterCreate(dir, filename), filename)
        ELSE dir

\* the turn of the test loop comes when the command holds the outcome of the
\* row, has passed the row without a callback, or has ended
TestTurn ==
    \/ pc = "cbreturn" /\ cbRowNum = test.rowNum
    \/ pc = "loop" /\ test.rowNum < rowNum
    \/ pc \in {"returned", "exit"}

\* main_test.go:558-592: one turn of the loop
TestRow ==
    /\ test.pc = "loop"
    /\ TestTurn
    /\ \E o \in ReadAt(csvFile, test.rowNum + 1, test.fieldsPerRecord) :
          IF o.err # "nil" THEN test' = [test EXCEPT !.pc = "done"]
          ELSE IF Len(o.record) < TestURLColumn
          THEN test' = [test EXCEPT !.errorCount = @ + 1, !.rowNum = @ + 1]
          ELSE LET imageURL == TrimSpace(o.record[TestURLColumn])
               IN  IF imageURL = <<>>
                   THEN test' = [test EXCEPT !.errorCount = @ + 1, !.rowNum = @ + 1]
                   ELSE IF ~IsValidURL(imageURL)
                   THEN test' = [test EXCEPT !.errorCount = @ + 1,
                                             !.rowNum = @ + 1,
                                             !.calls = Append(@, test.rowNum)]
                   ELSE \E d \in TestDownloads(imageURL, test.rowNum) :
                           test' = [test EXCEPT
                                      !.errorCount = IF d.err # "nil" THEN @ + 1 ELSE @,
                                      !.successCount = IF d.err # "nil" THEN @ ELSE @ + 1,
                                      !.rowNum = @ + 1,
                                      !.calls = Append(@, test.rowNum),
                                      !.files = TestFilesAfter(@, imageURL, test.rowNum, d)]
    /\ UNCHANGED <<pc, argc, colArg, csvState, dirState, urlColumnIndex, fieldsPerRecord,
                   recordsRead, result, rowNum, ret, cbUrl, cbRowNum, cbErr, resp,
                   curFile, files, handles, row, readErr, calls, gets, succeeded,
                   dir0, exitCode, arg, out, csvFile, run>>

\* the command leaves a row behind once the test loop has taken its turn on it
CommandTurn ==
    pc = "cbreturn" => \/ test.pc \in {"done", "fatal"}
                       \/ test.pc = "loop" /\ test.rowNum > cbRowNum

NextLoop ==
    \/ TestHeader
    \/ TestRow
    \/ CommandTurn /\ Next

SpecLoop == InitLoop /\ [][NextLoop]_vars

-----------------------------------------------------------------------------
(* ValidateCSVStructure, applied to the input file before the command runs *)

\* the one read outcome of a file whose content is fixed
RecordAt(file, pos, fpr) == CHOOSE o \in ReadAt(file, pos, fpr) : TRUE

\* a header check that lets every header through
ValidateHeaderNeverShort(header, expectedColumns) == FALSE

\* processor.go:96
ValidateHeaderTooShort(header, expectedColumns) == Len(header) < expectedColumns

\* processor.go:101-113: the loop over the data records, from the pos-th Read
RECURSIVE ValidateRows(_, _, _, _, _)
ValidateRows(file, pos, fpr, expectedColumns, rowCount) ==
    LET o == RecordAt(file, pos, fpr)
    IN  IF o.err # "nil" THEN [err |-> "nil", row |-> 0]
        ELSE IF Len(o.record) < expectedColumns
        THEN [err |-> "row", row |-> rowCount + 1]
        ELSE ValidateRows(file, pos + 1, fpr, expectedColumns, rowCount + 1)

\* processor.go:82-116, for a file that is "unreadable" or "ok" to os.Open
ValidateCSVStructure(state, file, expectedColumns) ==
    IF state # "ok" THEN [err |-> "open", row |-> 0]
    ELSE LET h == RecordAt(file, 1, 0)
         IN  IF h.err # "nil" THEN [err |-> "header", row |-> 0]
             ELSE IF ValidateHeaderTooShort(h.record, expectedColumns)
             THEN [err |-> "columns", row |-> 0]
             ELSE ValidateRows(file, 2, Len(h.record), expectedColumns, 0)

\* records of one to MaxCols fields, all fillers or with a URL in the last
ValidateRecords ==
    {[i \in 1..w |-> IF i = w THEN c ELSE CellFiller] :
        w \in 1..MaxCols, c \in {CellFiller, CellNoExt}}

\* files of up to MaxRows data records, with a header or empty
ValidateFiles ==
    {[fixed |-> TRUE, records |-> recs] :
        recs \in UNION {[1..n -> ValidateRecords] : n \in 0..(MaxRows + 1)}}

InitValidate ==
    /\ pc = "main"
    /\ argc = 3
    /\ colArg \in {c \in ColArgs : AtoiOK(c)}
    /\ csvState \in {"unreadable", "ok"}
    /\ dirState = "ok"
    /\ files = <<>>
    /\ dir0 = <<>>
    /\ csvFile \in ValidateFiles
    /\ run = 1
    /\ test = NoTest
    /\ urlColumnIndex = 0
    /\ fieldsPerRecord = 0
    /\ recordsRead = 0
    /\ result = ZeroResult
    /\ rowNum = 0
    /\ ret = NotReturned
    /\ cbUrl = <<>>
    /\ cbRowNum = 0
    /\ cbErr = "nil"
    /\ resp = NoResponse
    /\ curFile = NoFile
    /\ handles = {}
    /\ row = <<>>
    /\ readErr = "nil"
    /\ calls = <<>>
    /\ gets = 0
    /\ exitCode = -1
    /\ succeeded = {}
    /\ arg = <<>>
    /\ out = <<>>

\* ValidateCSVStructure(file, n) is called with the column index of the
\* command line, before the command starts
CallValidateCSVStructure ==
    /\ pc = "main"
    /\ out = <<>>
    /\ out' = <<ValidateCSVStructure(csvState, csvFile, Atoi(colArg))>>
    /\ UNCHANGED <<pc, argc, colArg, csvState, dirState, urlColumnIndex, fieldsPerRecord,
                   recordsRead, result, rowNum, ret, cbUrl, cbRowNum, cbErr, resp,
                   curFile, files, handles, row, readErr, calls, gets, succeeded,
                   dir0, exitCode, arg, csvFile, run, test>>

\* the command runs once the file has been validated
Validated == out # <<>>

NextValidate ==
    \/ CallValidateCSVStructure
    \/ Validated /\ Next

SpecValidate == InitValidate /\ [][NextValidate]_vars

-----------------------------------------------------------------------------
(* IsValidURL applied on its own *)

SchemeUpperHTTP == <<"H", "T", "T", "P", ":", "/", "/">>
SchemeOneSlash == <<"h", "t", "t", "p", ":", "/">>

URLPrefixes == {SchemeHTTP, SchemeHTTPS, SchemeFTP, SchemeFILE, SchemeUpperHTTP,
                SchemeOneSlash, <<>>}

TailChars == {"a", " ", "\t"}

URLTails == UNION {[1..n -> TailChars] : n \in 0..MaxTail}

URLPads == {<<>>, <<" ">>, <<"\n">>}

URLInputs == {pad \o prefix \o tail : pad \in URLPads, prefix \in URLPrefixes, tail \in URLTails}

Idle ==
    /\ argc = 0
    /\ colArg = <<>>
    /\ csvState = "ok"
    /\ dirState = "ok"
    /\ files = <<>>
    /\ urlColumnIndex = 0
    /\ fieldsPerRecord = 0
    /\ recordsRead = 0
    /\ result = ZeroResult
    /\ rowNum = 0
    /\ ret = NotReturned
    /\ cbUrl = <<>>
    /\ cbRowNum = 0
    /\ cbErr = "nil"
    /\ resp = NoResponse
    /\ curFile = NoFile
    /\ handles = {}
    /\ row = <<>>
    /\ readErr = "nil"
    /\ calls = <<>>
    /\ gets = 0
    /\ exitCode = -1
    /\ succeeded = {}
    /\ dir0 = <<>>
    /\ csvFile = AnyFile
    /\ run = 1
    /\ test = NoTest

InitURL ==
    /\ Idle
    /\ pc = "call"
    /\ arg \in URLInputs
    /\ out = <<>>

CallIsValidURL ==
    /\ pc = "call"
    /\ out' = <<IsValidURL(arg)>>
    /\ pc' = "done"
    /\ UNCHANGED <<argc, colArg, csvState, dirState, urlColumnIndex, fieldsPerRecord,
                   recordsRead, result, rowNum, ret, cbUrl, cbRowNum, cbErr, resp,
                   curFile, files, handles, row, readErr, calls, gets, exitCode, arg,
                   succeeded, dir0,
                   csvFile, run, test>>

NextURL == CallIsValidURL

SpecURL == InitURL /\ [][NextURL]_vars

-----------------------------------------------------------------------------
(* GetExtensionFromContentType and GetExtensionFromURL applied on their own *)

Markers == <<MarkerJPEG, MarkerJPG, MarkerPNG, MarkerGIF, MarkerWEBP, MarkerBMP, MarkerTIFF>>

\* Content-Type values: one marker, two markers in either order, a marker inside
\* a longer value, and values that hold none
TypeUpperPNG == <<"I", "M", "A", "G", "E", "/", "P", "N", "G">>

TypeInputs ==
    {Markers[k] : k \in 1..Len(Markers)}
    \cup {Markers[j] \o <<",">> \o Markers[k] : j, k \in 1..Len(Markers)}
    \* "<marker>; charset=utf-8"
    \cup {Markers[k] \o <<";", " ", "c", "h", "a", "r", "s", "e", "t", "=", "u", "t", "f", "-", "8">> :
              k \in 1..Len(Markers)}
    \cup {<<"x", " ">> \o Markers[k] : k \in 1..Len(Markers)}
    \* "IMAGE/PNG", "image/tif", "image/svg+xml", "text/html", ""
    \cup {TypeUpperPNG, <<"i", "m", "a", "g", "e", "/", "t", "i", "f">>,
          <<"i", "m", "a", "g", "e", "/", "s", "v", "g", "+", "x", "m", "l">>, TypeHTML, <<>>}

\* URLs: a base, a suffix, and what follows the suffix:
\* "http://a.b/c", "http://a/", "c", ""
URLBases == {<<"h", "t", "t", "p", ":", "/", "/", "a", ".", "b", "/", "c">>,
             <<"h", "t", "t", "p", ":", "/", "/", "a", "/">>, <<"c">>, <<>>}

SuffixUpperJPG == <<".", "J", "P", "G">>

URLSuffixes ==
    {validExts[k] : k \in 1..Len(validExts)}
    \* ".JPG", ".Gif", ".txt", ".jpgx", ".", ".png.txt", ".txt.png", ""
    \cup {SuffixUpperJPG, <<".", "G", "i", "f">>, <<".", "t", "x", "t">>,
          <<".", "j", "p", "g", "x">>, <<".">>,
          <<".", "p", "n", "g", ".", "t", "x", "t">>, <<".", "t", "x", "t", ".", "p", "n", "g">>, <<>>}

QueryPlain == <<"?", "x", "=", "1">>

URLTrailers == {<<>>, <<"/">>, QueryPlain, <<"?", "f", "=", "c", ".", "p", "n", "g">>}

URLExtInputs == {b \o s \o q : b \in URLBases, s \in URLSuffixes, q \in URLTrailers}

InitExt ==
    /\ Idle
    /\ pc = "call"
    /\ arg \in TypeInputs \cup URLExtInputs
    /\ out = <<>>

CallGetExtensionFromContentType ==
    /\ pc = "call"
    /\ out' = <<GetExtensionFromContentType(arg)>>
    /\ pc' = "doneType"
    /\ UNCHANGED <<argc, colArg, csvState, dirState, urlColumnIndex, fieldsPerRecord,
                   recordsRead, result, rowNum, ret, cbUrl, cbRowNum, cbErr, resp,
                   curFile, files, handles, row, readErr, calls, gets, exitCode, arg,
                   succeeded, dir0,
                   csvFile, run, test>>

CallGetExtensionFromURL ==
    /\ pc = "call"
    /\ out' = <<GetExtensionFromURL(arg)>>
    /\ pc' = "doneURL"
    /\ UNCHANGED <<argc, colArg, csvState, dirState, urlColumnIndex, fieldsPerRecord,
                   recordsRead, result, rowNum, ret, cbUrl, cbRowNum, cbErr, resp,
                   curFile, files, handles, row, readErr, calls, gets, exitCode, arg,
                   succeeded, dir0,
                   csvFile, run, test>>

\* the same string given to the function DownloadImage calls and to the
\* exported one
CallBothFromContentType ==
    /\ pc = "call"
    /\ out' = <<getExtensionFromContentType(arg), GetExtensionFromContentType(arg)>>
    /\ pc' = "doneBoth"
    /\ UNCHANGED <<argc, colArg, csvState, dirState, urlColumnIndex, fieldsPerRecord,
                   recordsRead, result, rowNum, ret, cbUrl, cbRowNum, cbErr, resp,
                   curFile, files, handles, row, readErr, calls, gets, exitCode, arg,
                   succeeded, dir0,
                   csvFile, run, test>>

NextExt ==
    \/ CallGetExtensionFromContentType
    \/ CallBothFromContentType
    \/ CallGetExtensionFromURL

SpecExt == InitExt /\ [][NextExt]_vars

-----------------------------------------------------------------------------
(* Properties of ProcessCSV *)

InCallback == pc \in {"callback", "get", "create", "copy", "cbreturn"}

\* the header check has passed: only then is rowNum set to 1
HeaderPassed == rowNum >= 1

\* C1: the ProcessResult a successful ProcessCSV call returns satisfies
\* SuccessCount + ErrorCount = TotalRows.
C1_CountsAddUp ==
    ret.state = "result" =>
        ret.result.SuccessCount + ret.result.ErrorCount = ret.result.TotalRows

C1_Witness ==
    /\ ret.state = "result"
    /\ ret.result.SuccessCount = 1
    /\ ret.result.ErrorCount = 1

\* C2: the row number passed to the callback for the k-th data record is k,
\* whatever happened to the records before it.
C2_RowNumberIsPosition ==
    InCallback => /\ cbRowNum = recordsRead
                  /\ calls[Len(calls)] = recordsRead

C2_Witness ==
    /\ pc = "callback"
    /\ cbRowNum = 2
    /\ calls = <<2>>
    /\ result.ErrorCount = 1

\* C3: TotalRows is the number of data records read without error before the
\* reader first returned an error, valid or not.
C3_TotalRowsIsRecordsRead ==
    /\ pc = "loop" => result.TotalRows = recordsRead
    /\ ret.state = "result" => ret.result.TotalRows = recordsRead

C3_Witness ==
    /\ ret.state = "result"
    /\ ret.result.TotalRows = 2
    /\ ret.result.SuccessCount = 0
    /\ Len(calls) = 1

\* C4: a data row with fewer than urlColumnIndex columns is counted in TotalRows
\* and ErrorCount, the callback is not invoked for it, and the loop goes on to
\* the next row.
C4_ShortRowCounted ==
    [][(pc = "row" /\ row # <<>> /\ Len(row) < urlColumnIndex) =>
          /\ result'.TotalRows = result.TotalRows + 1
          /\ result'.ErrorCount = result.ErrorCount + 1
          /\ calls' = calls
          /\ pc' = "loop"]_vars

\* C5: a row the loop reads whose cell at urlColumnIndex is empty or blank is
\* counted as an error with no callback; for any other such row the callback is
\* invoked once with the trimmed, non-empty cell, and the row is counted as an
\* error iff the callback returns one, as a success otherwise.
C5_RowDispatch ==
    [][/\ (pc = "row" /\ readErr = "nil" /\ urlColumnIndex \in 1..Len(row)) =>
            IF TrimSpace(row[urlColumnIndex]) = <<>>
            THEN /\ result'.ErrorCount = result.ErrorCount + 1
                 /\ result'.SuccessCount = result.SuccessCount
                 /\ calls' = calls
                 /\ pc' = "loop"
            ELSE /\ calls' = Append(calls, rowNum)
                 /\ cbUrl' = TrimSpace(row[urlColumnIndex])
                 /\ cbUrl' # <<>>
                 /\ result'.ErrorCount = result.ErrorCount
                 /\ result'.SuccessCount = result.SuccessCount
                 /\ pc' = "callback"
       /\ pc = "cbreturn" =>
            /\ result'.ErrorCount = result.ErrorCount + (IF cbErr # "nil" THEN 1 ELSE 0)
            /\ result'.SuccessCount = result.SuccessCount + (IF cbErr # "nil" THEN 0 ELSE 1)
            /\ pc' = "loop"
       /\ pc # "row" => calls' = calls]_vars

C5_Witness ==
    /\ pc = "cbreturn"
    /\ cbErr = "nil"
    /\ recordsRead = 2
    /\ calls = <<2>>
    /\ result.ErrorCount = 1
    /\ cbUrl = TrimSpace(CellPaddedGIF)
    /\ cbUrl # CellPaddedGIF

PastHeader ==
    \/ pc \in {"loop", "row", "callback", "get", "create", "copy", "cbreturn",
               "returned", "panic"}
    \/ pc = "exit" /\ ret.state # "none"

\* C6: when the file cannot be opened or the header has fewer than
\* urlColumnIndex columns, ProcessCSV returns an error and no result, reads no
\* data row and never invokes the callback.
C6_StructuralFailure ==
    (PastHeader /\ (csvState # "ok" \/ (fieldsPerRecord >= 1 /\ fieldsPerRecord < urlColumnIndex))) =>
        /\ ret.state = "error"
        /\ ret.err # "nil"
        /\ recordsRead = 0
        /\ calls = <<>>
        /\ gets = 0
        /\ row = <<>>

C6_Witness ==
    /\ ret.state = "error"
    /\ ret.err = "columns"
    /\ fieldsPerRecord = 1
    /\ urlColumnIndex = 2

\* C7: once the header check has passed, ProcessCSV always ends by returning a
\* ProcessResult and a nil error.
C7_AlwaysReturnsResult ==
    (HeaderPassed /\ pc \in {"returned", "exit", "panic"}) =>
        /\ ret.state = "result"
        /\ ret.err = "nil"

-----------------------------------------------------------------------------
(* Properties of DownloadImage *)

\* C8: on a 200 response the file is named with the extension of the content
\* type when that is a known image type, else with the allow-listed suffix of
\* the URL, else with .jpg; it is never empty, and image/png wins over a URL
\* that ends in .jpg.
C8_ExtensionPriority ==
    pc = "copy" =>
        LET fromType == getExtensionFromContentType(resp.contentType)
            fromURL == GetExtensionFromURL(cbUrl)
        IN  /\ curFile.rowNum = cbRowNum
            /\ curFile.ext # <<>>
            /\ fromType # <<>> => curFile.ext = fromType
            /\ (fromType = <<>> /\ fromURL # <<>>) => curFile.ext = fromURL
            /\ (fromType = <<>> /\ fromURL = <<>>) => curFile.ext = ExtJPG
            /\ resp.contentType = TypePNG => curFile.ext = ExtPNG
            /\ (resp.contentType = TypeHTML /\ cbUrl = TrimSpace(CellPaddedGIF)) =>
                   curFile.ext = ExtGIF
            /\ (resp.contentType = TypeHTML /\ cbUrl = CellNoExt) => curFile.ext = ExtJPG

C8_Witness ==
    /\ pc = "copy"
    /\ resp.contentType = TypePNG
    /\ cbUrl = CellJPG
    /\ curFile = FileName(2, ExtPNG)
    /\ FileName(1, ExtGIF) \in DOMAIN files

\* C9: when the GET fails or the status is not 200, DownloadImage returns an
\* error and the files of the target directory are unchanged.
C9_FailedGetLeavesFiles ==
    [][(pc = "get" /\ (resp'.err \/ resp'.status # 200)) =>
          /\ pc' = "cbreturn"
          /\ cbErr' # "nil"
          /\ files' = files]_vars

C9_Witness ==
    /\ pc = "cbreturn"
    /\ ~resp.err
    /\ resp.status = 201
    /\ cbErr = "status"
    /\ DOMAIN files # {}

-----------------------------------------------------------------------------
(* Properties of IsValidURL *)

NonFileSchemes == {SchemeHTTP, SchemeHTTPS, SchemeFTP}

\* C10: a trimmed string that starts with http://, https:// or ftp:// is valid
\* iff the part after the scheme is non-empty and holds no white space of any
\* kind.
C10_NoWhiteSpaceOfAnyKind ==
    pc = "done" =>
        \A scheme \in NonFileSchemes :
            HasPrefix(TrimSpace(arg), scheme) =>
                LET afterScheme == SubSeq(TrimSpace(arg), Len(scheme) + 1, Len(TrimSpace(arg)))
                IN  out[1] = (/\ afterScheme # <<>>
                              /\ \A i \in 1..Len(afterScheme) : afterScheme[i] \notin WhiteSpace)

Schemes == {SchemeHTTP, SchemeHTTPS, SchemeFTP, SchemeFILE}

\* C11: IsValidURL(s) = IsValidURL(trim(s)) for every s; an empty or
\* all-white-space string is invalid; a trimmed string that starts with none of
\* http://, https://, ftp://, file://, compared case-sensitively, is invalid.
C11_TrimFirst ==
    pc = "done" =>
        /\ out[1] = IsValidURL(TrimSpace(arg))
        /\ TrimSpace(arg) = <<>> => out[1] = FALSE
        /\ (\A scheme \in Schemes : ~HasPrefix(TrimSpace(arg), scheme)) => out[1] = FALSE

C11_Witness ==
    /\ pc = "done"
    /\ arg = <<" ">> \o SchemeHTTP \o <<"a", " ">>
    /\ out = <<TRUE>>

\* C12: a trimmed string that starts with file:// is valid iff it is longer
\* than 7 characters, white space after the scheme or not.
C12_FileScheme ==
    (pc = "done" /\ HasPrefix(TrimSpace(arg), SchemeFILE)) =>
        out[1] = (Len(TrimSpace(arg)) > 7)

C12_Witness ==
    /\ pc = "done"
    /\ arg = SchemeFILE \o <<" ", "a">>
    /\ out = <<TRUE>>

-----------------------------------------------------------------------------
(* Properties of the extension functions *)

MarkerExts == <<ExtJPG, ExtJPG, ExtPNG, ExtGIF, ExtWEBP, ExtBMP, ExtTIFF>>

\* the markers that occur in a value, by their place in the order
MarkersIn(contentType) == {k \in 1..Len(Markers) : Contains(contentType, Markers[k])}

\* C13: GetExtensionFromContentType returns the extension of the first marker,
\* in the order image/jpeg, image/jpg, image/png, image/gif, image/webp,
\* image/bmp, image/tiff, that is a case-sensitive substring of the value, the
\* empty string when none is; it never returns .jpeg or .tif.
C13_FirstMarkerInOrder ==
    pc = "doneType" =>
        /\ MarkersIn(arg) = {} => out[1] = <<>>
        /\ \A k \in MarkersIn(arg) :
               (\A j \in MarkersIn(arg) : k <= j) => out[1] = MarkerExts[k]
        /\ out[1] \notin {ExtJPEG, ExtTIF}
        /\ arg = TypeUpperPNG => out[1] = <<>>

C13_Witness ==
    /\ pc = "doneType"
    /\ arg = MarkerPNG \o <<",">> \o MarkerJPEG
    /\ out = <<ExtJPG>>

ValidExtSet == {validExts[k] : k \in 1..Len(validExts)}

\* the text after the last slash of a string
FinalElement(s) ==
    LET slashes == {i \in 1..Len(s) : s[i] = "/"}
    IN  IF slashes = {} THEN s
        ELSE SubSeq(s, (CHOOSE i \in slashes : \A j \in slashes : j <= i) + 1, Len(s))

\* the text from the last dot of a string, empty when it has no dot
FromLastDot(s) ==
    LET dots == {i \in 1..Len(s) : s[i] = "."}
    IN  IF dots = {} THEN <<>>
        ELSE SubSeq(s, CHOOSE i \in dots : \A j \in dots : j <= i, Len(s))

-----------------------------------------------------------------------------
(* Properties of a whole run *)

\* the row numbers that have a file image_<n><ext> in the target directory
RowsWithFile == {f.rowNum : f \in DOMAIN files}

\* C15: after a run that started from an empty target directory, the row
\* numbers that have a file are the rows counted as successes: each successful
\* row has exactly one file and no row counted as an error has any.
C15_FilesAreSuccesses ==
    (ret.state = "result" /\ dir0 = <<>>) =>
        /\ RowsWithFile = succeeded
        /\ \A n \in succeeded : Cardinality({f \in DOMAIN files : f.rowNum = n}) = 1

\* C16: the file a successful row k writes is image_<k><ext>, with <ext>
\* resolved from the response to row k's own request and row k's own URL, and
\* no other file changes; rows that all succeed leave one complete file each,
\* as many successes as rows and no error.
C16_OwnFilePerRow ==
    [][/\ (pc = "create" /\ pc' = "copy") =>
            /\ curFile'.rowNum = cbRowNum
            /\ curFile'.ext = ResolveExtension(resp.contentType, cbUrl)
            /\ DOMAIN files' = DOMAIN files \cup {curFile'}
            /\ \A f \in DOMAIN files \ {curFile'} : files'[f] = files[f]
       /\ (pc = "copy" /\ cbErr' = "nil") =>
            /\ files'[curFile] = "complete"
            /\ \A f \in DOMAIN files \ {curFile} : files'[f] = files[f]
       /\ (pc = "cbreturn" /\ cbErr = "nil") =>
            /\ cbRowNum = recordsRead
            /\ resp \in GetOutcomes(cbUrl)
            /\ curFile.rowNum = cbRowNum
            /\ curFile.ext = ResolveExtension(resp.contentType, cbUrl)
            /\ files[curFile] = "complete"
            /\ result'.SuccessCount = result.SuccessCount + 1
            /\ files' = files
       /\ (ret.state = "result" /\ dir0 = <<>> /\ succeeded = 1..recordsRead) =>
            /\ ret.result.SuccessCount = recordsRead
            /\ ret.result.ErrorCount = 0
            /\ RowsWithFile = 1..recordsRead
            /\ Cardinality(DOMAIN files) = recordsRead
            /\ \A f \in DOMAIN files : files[f] = "complete"]_vars

C16_Witness ==
    /\ ret.state = "result"
    /\ ret.result = [SuccessCount |-> 2, ErrorCount |-> 0, TotalRows |-> 2]
    /\ DOMAIN files = {FileName(1, ExtPNG), FileName(2, ExtGIF)}
    /\ dir0 = <<>>

\* C17: when the command is run again on the same input file and the same
\* target directory, every file is written out in full, and the rows that
\* succeed are the rows whose files the first run left, the directory holds
\* after the second run exactly the file names it held after the first: no
\* file is left over from the first run other than by being overwritten.
C17_RerunSameNames ==
    (/\ run = 2
     /\ pc = "exit"
     /\ ret.state = "result"
     /\ \A f \in DOMAIN dir0 : dir0[f] = "complete"
     /\ \A f \in DOMAIN files : files[f] = "complete"
     /\ succeeded = {f.rowNum : f \in DOMAIN dir0}) =>
        DOMAIN files = DOMAIN dir0

\* C18: in the command, a row whose trimmed URL fails IsValidURL is counted as
\* an error with no GET issued and no file created; a row whose URL is not
\* empty and passes goes through DownloadImage once: one GET, at most one file.
C18_ValidationGatesDownload ==
    [][/\ pc = "callback" =>
            /\ cbUrl # <<>>
            /\ gets' = gets
            /\ files' = files
            /\ IF IsValidURL(cbUrl) THEN pc' = "get"
               ELSE pc' = "cbreturn" /\ cbErr' # "nil"
       /\ (pc = "cbreturn" /\ ~IsValidURL(cbUrl)) =>
            /\ result'.ErrorCount = result.ErrorCount + 1
            /\ result'.SuccessCount = result.SuccessCount
            /\ files' = files
            /\ resp = NoResponse
            /\ curFile = NoFile
       \* DownloadImage is entered from the callback only, and issues one GET
       /\ pc' = "get" => pc = "callback" /\ IsValidURL(cbUrl)
       /\ gets' = IF pc = "get" THEN gets + 1 ELSE gets
       /\ pc = "get" => pc' \in {"create", "cbreturn"}
       \* one file at most, created on the way from the GET to the return
       /\ DOMAIN files' # DOMAIN files =>
            /\ pc = "create"
            /\ Cardinality(DOMAIN files' \ DOMAIN files) = 1
       /\ pc = "create" => pc' \in {"copy", "cbreturn"}
       /\ pc = "copy" => pc' = "cbreturn" /\ DOMAIN files' = DOMAIN files]_vars

C18_Witness ==
    /\ pc = "cbreturn"
    /\ cbErr = "invalid"
    /\ cbUrl = CellFiller
    /\ calls = <<1, 2>>
    /\ gets = 1
    /\ dir0 = <<>>
    /\ Cardinality(DOMAIN files) = 1

\* the process has ended
Exited == pc \in {"exit", "panic"}

\* C19: the command exits with status 0 whenever ProcessCSV returns a result,
\* however many rows failed, and with a non-zero status only for a wrong
\* argument count, a column index that is not a number, an input file that
\* does not exist, a downloads directory that cannot be created, or an error
\* returned by ProcessCSV.
C19_ExitStatus ==
    Exited =>
        /\ ret.state = "result" => exitCode = 0
        /\ exitCode # 0 =>
               \/ argc # 3
               \/ ~AtoiOK(colArg)
               \/ csvState = "missing"
               \/ dirState = "blocked"
               \/ ret.state = "error"

\* the rows the loop has taken up and not yet counted as success or error
RowsInProgress == result.TotalRows - result.SuccessCount - result.ErrorCount

\* C20: rows are processed one at a time in file order: the callback for row k
\* has returned before record k+1 is read, the callbacks are invoked in
\* strictly increasing order of row number, and at most one download is in
\* progress at any moment.
C20_OneRowAtATime ==
    [][/\ \A i, j \in 1..Len(calls) : i < j => calls[i] < calls[j]
       /\ InCallback =>
            /\ RowsInProgress = 1
            /\ calls[Len(calls)] = recordsRead
            /\ cbRowNum = recordsRead
            /\ recordsRead' = recordsRead
            /\ calls' = calls
       /\ pc \in {"loop", "row"} =>
            /\ RowsInProgress = 0
            /\ handles \cap {"body", "out"} = {}
            /\ cbRowNum = 0
       /\ recordsRead' # recordsRead =>
            /\ pc = "loop"
            /\ recordsRead' = recordsRead + 1
            /\ Len(calls) <= recordsRead
       /\ calls' # calls =>
            /\ pc = "row"
            /\ calls' = Append(calls, recordsRead)]_vars

C20_Witness ==
    /\ pc = "copy"
    /\ calls = <<1, 2>>
    /\ recordsRead = 2
    /\ result.SuccessCount = 1
    /\ handles = {"csv", "body", "out"}

\* C21: there are no retries: a data row causes at most one invocation of the
\* callback, and a DownloadImage call issues at most one GET, whether the
\* request succeeds or fails.
C21_NoRetries ==
    /\ Len(calls) <= recordsRead
    /\ \A i, j \in 1..Len(calls) : i # j => calls[i] # calls[j]
    /\ gets <= Len(calls)
    /\ pc \in {"callback", "get"} => gets <= Len(calls) - 1
    /\ (pc = "cbreturn" /\ cbErr = "invalid") => gets <= Len(calls) - 1

C21_Witness ==
    /\ pc = "cbreturn"
    /\ resp.err
    /\ cbErr = "request"
    /\ calls = <<1, 2>>
    /\ gets = 2

\* C22: when reading a data record fails, at the end of the input or on a
\* malformed record, ProcessCSV stops there: that record and every later one
\* are neither counted in TotalRows nor handed to the callback, and the counts
\* so far are returned with a nil error.
C22_ReadErrorEndsLoop ==
    [][/\ (pc = "row" /\ readErr # "nil") =>
            /\ ret' = [state |-> "result", result |-> result, err |-> "nil"]
            /\ result' = result
            /\ calls' = calls
            /\ pc' = "returned"
       /\ ret.state = "result" =>
            /\ pc \in {"returned", "exit"}
            /\ ret.result = result
            /\ ret' = ret
            /\ result' = result
            /\ recordsRead' = recordsRead
            /\ calls' = calls
            /\ gets' = gets
            /\ files' = files]_vars

\* a record with the wrong number of fields has come back from the second
\* Read of the loop, after one row was downloaded
C22_Witness ==
    /\ pc = "row"
    /\ readErr = "fieldcount"
    /\ row # <<>>
    /\ result = [SuccessCount |-> 1, ErrorCount |-> 0, TotalRows |-> 1]
    /\ recordsRead = 1
    /\ calls = <<1>>

\* C23: when writing the body fails after the output file was created,
\* DownloadImage returns an error, the row is counted as an error, and the
\* partial file stays on disk: it is not deleted and the download is not
\* tried again.
C23_PartialFileStays ==
    [][/\ (pc = "copy" /\ cbErr' = "write") =>
            /\ pc' = "cbreturn"
            /\ DOMAIN files' = DOMAIN files
            /\ files'[curFile] = "partial"
            /\ gets' = gets
       /\ (pc = "cbreturn" /\ cbErr = "write") =>
            /\ curFile \in DOMAIN files
            /\ files[curFile] = "partial"
            /\ result'.ErrorCount = result.ErrorCount + 1
            /\ result'.SuccessCount = result.SuccessCount
            /\ files' = files
            /\ pc' = "loop"
       /\ \A f \in DOMAIN files :
            files[f] = "partial" => f \in DOMAIN files' /\ files'[f] = "partial"]_vars

C23_Witness ==
    /\ pc = "returned"
    /\ ret.state = "result"
    /\ ret.result = [SuccessCount |-> 0, ErrorCount |-> 1, TotalRows |-> 1]
    /\ gets = 1
    /\ files = FileName(1, ExtPNG) :> "partial"

\* C24: every handle is released on every exit path: the input file is closed
\* when ProcessCSV returns, the response body and the output file are closed
\* when DownloadImage returns, and no handle of a download stays open across
\* rows.
C24_HandlesReleased ==
    /\ pc \in {"main", "open", "returned", "exit", "panic"} => handles = {}
    /\ pc \in {"header", "loop", "row", "callback", "get", "cbreturn"} => handles = {"csv"}
    /\ pc = "create" => handles = {"csv", "body"}
    /\ pc = "copy" => handles = {"csv", "body", "out"}

C24_Witness ==
    /\ pc = "cbreturn"
    /\ cbErr = "create"
    /\ ~resp.err
    /\ handles = {"csv"}
    /\ result.ErrorCount = 1
    /\ files = FileName(1, ExtPNG) :> "partial"

\* C25: a failure on a later row never undoes earlier work: the file written
\* for a successful row is still there under the same name, complete, whatever
\* happens afterwards, and SuccessCount never decreases during a run.
C25_NoRollback ==
    [][/\ \A f \in DOMAIN files :
            (f.rowNum \in succeeded /\ files[f] = "complete") =>
                f \in DOMAIN files' /\ files'[f] = "complete"
       /\ succeeded \subseteq succeeded'
       /\ result'.SuccessCount >= result.SuccessCount
       /\ ret.state = "result" =>
            /\ succeeded \subseteq RowsWithFile
            /\ ret.result.SuccessCount = Cardinality(succeeded)]_vars

C25_Witness ==
    /\ ret.state = "result"
    /\ ret.result = [SuccessCount |-> 1, ErrorCount |-> 1, TotalRows |-> 2]
    /\ succeeded = {1}
    /\ files = FileName(1, ExtPNG) :> "complete" @@ FileName(2, ExtGIF) :> "partial"

\* C26: for every column index the command accepts, zero and negative ones
\* included, ProcessCSV returns a structural error or completes with a result:
\* the cell it reads, row[urlColumnIndex-1], is always inside the row, and the
\* run never ends in a panic.
C26_IndexInRange ==
    /\ (pc = "row" /\ readErr = "nil" /\ Len(row) >= urlColumnIndex) =>
            urlColumnIndex \in 1..Len(row)
    /\ pc # "panic"

\* C27: within one run no two rows write to the same path: the row number is
\* part of every file name and no earlier row of the run had it, so a file
\* that os.Create finds under the name, or under the number, of the current
\* row was left by an earlier run.
C27_DistinctPaths ==
    [][/\ (pc = "create" /\ pc' = "copy") =>
            /\ curFile'.rowNum = cbRowNum
            /\ \A i \in 1..(Len(calls) - 1) : calls[i] # cbRowNum
            /\ \A f \in DOMAIN files : f.rowNum = cbRowNum => f \in DOMAIN dir0
            /\ curFile' \in DOMAIN files =>
                   curFile' \in DOMAIN dir0 /\ files[curFile'] = dir0[curFile']
       /\ \A f \in DOMAIN files \ DOMAIN dir0 :
            \E i \in 1..Len(calls) : calls[i] = f.rowNum]_vars

C27_Witness ==
    /\ pc = "copy"
    /\ dir0 = StaleFile :> "complete"
    /\ curFile = StaleFile
    /\ files = StaleFile :> "empty"
    /\ cbRowNum = 1

-----------------------------------------------------------------------------
(* The row loop of the integration test against ProcessCSV *)

\* both loops have ended
BothEnded == pc = "exit" /\ test.pc = "done"

\* the counts, the row numbers and the files of the two loops agree
LoopsAgree ==
    /\ test.successCount = result.SuccessCount
    /\ test.errorCount = result.ErrorCount
    /\ test.calls = calls
    /\ test.files = files

\* C28: for every input file and every server behaviour, the row loop of the
\* integration test ends with the same success count, error count, row
\* numbers and created files as ProcessCSV with the validating callback of
\* the command.
C28_TestLoopIsProcessCSV ==
    BothEnded => LoopsAgree

\* C28 amended: the two agree whenever ProcessCSV returns a result, that is,
\* on every file whose header has at least three columns.
C28_TestLoopIsProcessCSVPastHeader ==
    (BothEnded /\ ret.state = "result") => LoopsAgree

C28_Witness ==
    /\ BothEnded
    /\ ret.state = "result"
    /\ ret.result = [SuccessCount |-> 1, ErrorCount |-> 1, TotalRows |-> 2]
    /\ test.successCount = 1
    /\ test.errorCount = 1
    /\ test.calls = <<2>>
    /\ test.files = FileName(2, ExtPNG) :> "complete"

-----------------------------------------------------------------------------
(* Properties of ValidateCSVStructure *)

\* the data records a reader gets from a file before its first read error:
\* those before the first one whose field count differs from the header's
ReadBeforeError(file) ==
    LET recs == file.records
        odd == {i \in 2..Len(recs) : Len(recs[i]) # Len(recs[1])}
        last == IF odd = {} THEN Len(recs)
                ELSE (CHOOSE i \in odd : \A j \in odd : i <= j) - 1
    IN  [k \in 1..(last - 1) |-> recs[k + 1]]

\* C29: ValidateCSVStructure returns nil exactly when the file opens, the
\* header can be read and has at least expectedColumns columns, and every
\* record read before the first read error has at least expectedColumns
\* columns; otherwise, for a short row, it reports the number of the first
\* one. When it returns nil for (file, n), ProcessCSV(file, n, f) returns no
\* structural error and counts no row as an error for having too few columns.
C29_ValidatedFileIsProcessed ==
    Validated =>
        LET n == Atoi(colArg)
            rows == ReadBeforeError(csvFile)
            short == {k \in 1..Len(rows) : Len(rows[k]) < n}
            headerOK == /\ csvState = "ok"
                        /\ csvFile.records # <<>>
                        /\ Len(csvFile.records[1]) >= n
        IN  /\ out[1].err = "nil" <=> (headerOK /\ short = {})
            /\ (headerOK /\ short # {}) =>
                   /\ out[1].err = "row"
                   /\ out[1].row \in short
                   /\ \A k \in short : out[1].row <= k
            /\ out[1].err = "nil" =>
                   /\ ret.state # "error"
                   /\ (pc = "row" /\ readErr = "nil") => Len(row) >= urlColumnIndex

C29_Witness ==
    /\ Validated
    /\ out[1].err = "nil"
    /\ urlColumnIndex = 2
    /\ ret.state = "result"
    /\ ret.result = [SuccessCount |-> 1, ErrorCount |-> 1, TotalRows |-> 2]

-----------------------------------------------------------------------------
(* The two content-type mappings *)

\* C30: the unexported getExtensionFromContentType, the one DownloadImage
\* calls, and the exported GetExtensionFromContentType return the same
\* extension for every content-type string.
C30_SameMapping ==
    pc = "doneBoth" => out[1] = out[2]

C30_Witness ==
    /\ pc = "doneBoth"
    /\ arg = MarkerJPG \o <<",">> \o MarkerPNG
    /\ out = <<ExtJPG, ExtJPG>>

=============================================================================
